---- MODULE Spec2Model ----
(***************************************************************************)
(* Middle Square Weyl Sequence generator (include/msws.h) and its command  *)
(* line driver (src/msws.cpp).                                             *)
(*                                                                         *)
(* TLC's integers are 32-bit signed, so the program's uint32_t / uint64_t  *)
(* values are kept at full width as little-endian sequences of bytes       *)
(* (4 bytes for uint32_t, 8 bytes for uint64_t).  All arithmetic on them   *)
(* is done limb by limb and wraps modulo 2^32 resp. 2^64 as in C.          *)
(***************************************************************************)
EXTENDS Integers, Sequences, FiniteSets, TLC

(***************************************************************************)
(* Fixed-width unsigned arithmetic                                         *)
(***************************************************************************)

\* uint32_t literal from its two 16-bit halves, e.g. 0x55555556 = U32(\h5555, \h5556)
U32(hi, lo) == <<lo % 256, lo \div 256, hi % 256, hi \div 256>>

\* uint64_t literal from its four 16-bit quarters, most significant first
U64(a, b, c, d) == U32(c, d) \o U32(a, b)

\* the value 0 at a width of n bytes
RECURSIVE Zero(_)
Zero(n) == IF n = 0 THEN <<>> ELSE <<0>> \o Zero(n - 1)

\* zero-extension of a to n bytes (a cast to a wider unsigned type)
ZeroExt(a, n) == a \o Zero(n - Len(a))

\* truncation of a to its low n bytes (a cast to a narrower unsigned type)
Trunc(a, n) == SubSeq(a, 1, n)

RECURSIVE AddFrom(_, _, _, _)
AddFrom(a, b, i, carry) ==
    IF i > Len(a) THEN <<>>
    ELSE LET t == a[i] + b[i] + carry
         IN  <<t % 256>> \o AddFrom(a, b, i + 1, t \div 256)

\* a + b at the width of a, wrapping
Add(a, b) == AddFrom(a, b, 1, 0)

RECURSIVE SubFrom(_, _, _, _)
SubFrom(a, b, i, borrow) ==
    IF i > Len(a) THEN <<>>
    ELSE LET t == a[i] - b[i] - borrow
         IN  <<(t + 256) % 256>> \o SubFrom(a, b, i + 1, IF t < 0 THEN 1 ELSE 0)

\* a - b at the width of a, wrapping
Sub(a, b) == SubFrom(a, b, 1, 0)

RECURSIVE ColSum(_, _, _, _)
ColSum(a, b, k, i) ==
    IF i = 0 THEN 0 ELSE a[i] * b[k + 1 - i] + ColSum(a, b, k, i - 1)

RECURSIVE MulFrom(_, _, _, _)
MulFrom(a, b, k, carry) ==
    IF k > Len(a) THEN <<>>
    ELSE LET t == ColSum(a, b, k, k) + carry
         IN  <<t % 256>> \o MulFrom(a, b, k + 1, t \div 256)

\* a * b at the width of a, wrapping
Mul(a, b) == MulFrom(a, b, 1, 0)

RECURSIVE LessFrom(_, _, _)
LessFrom(a, b, i) ==
    IF i = 0 THEN FALSE
    ELSE IF a[i] # b[i] THEN a[i] < b[i]
    ELSE LessFrom(a, b, i - 1)

\* a < b, unsigned, a and b of one width
Less(a, b) == LessFrom(a, b, Len(a))

\* bit j (0 = least significant) of a
Bit(a, j) ==
    LET p == CASE j % 8 = 0 -> 1   [] j % 8 = 1 -> 2  [] j % 8 = 2 -> 4
               [] j % 8 = 3 -> 8   [] j % 8 = 4 -> 16 [] j % 8 = 5 -> 32
               [] j % 8 = 6 -> 64  [] OTHER -> 128
    IN  (a[(j \div 8) + 1] \div p) % 2

RECURSIVE Shl1From(_, _, _)
Shl1From(a, i, carry) ==
    IF i > Len(a) THEN <<>>
    ELSE <<(2 * a[i] + carry) % 256>> \o Shl1From(a, i + 1, a[i] \div 128)

\* (a << 1) | bit at the width of a
Shl1(a, bit) == Shl1From(a, 1, bit)

\* one step of binary long division: bit j of n is shifted into the remainder;
\* st = <<remainder, quotient>>
DivBit(n, d, j, st) ==
    LET r2 == Shl1(st[1], Bit(n, j))
        ge == ~Less(r2, d)
    IN  <<IF ge THEN Sub(r2, d) ELSE r2, Shl1(st[2], IF ge THEN 1 ELSE 0)>>

\* the steps for bits hi, hi - 1, ..., lo of n in that order.  The run is split
\* in halves, the first half evaluated before the second is entered, which
\* keeps the evaluation shallow
RECURSIVE DivBits(_, _, _, _, _)
DivBits(n, d, hi, lo, st) ==
    IF hi = lo THEN DivBit(n, d, hi, st)
    ELSE LET mid == lo + (hi - lo + 1) \div 2
         IN  CHOOSE r \in {DivBits(n, d, mid - 1, lo, m) :
                              m \in {DivBits(n, d, hi, mid, st)}} : TRUE

\* n / d (unsigned integer division, d # 0) at the width of n: binary long
\* division, the remainder kept one byte wider than the operands
Div(n, d) ==
    Trunc(DivBits(n, ZeroExt(d, Len(n) + 1), 8 * Len(n) - 1, 0,
                  <<Zero(Len(n) + 1), Zero(Len(n) + 1)>>)[2], Len(n))

\* the value of a as an integer, for values below 2^31
RECURSIVE ToNat(_)
ToNat(a) == IF a = <<>> THEN 0 ELSE a[1] + 256 * ToNat(Tail(a))

\* the integer v (0 <= v < 2^31) at a width of n bytes
RECURSIVE OfNat(_, _)
OfNat(v, n) == IF n = 0 THEN <<>> ELSE <<v % 256>> \o OfNat(v \div 256, n - 1)

(***************************************************************************)
(* include/msws.h                                                          *)
(***************************************************************************)

UINT32_MAX == U32(\hFFFF, \hFFFF)

\* The build.  Two things the source leaves to the compiler and the host decide
\* what the functions below return:
\*  - the byte order of the host, which decides the bytes that the store
\*    *ptr++ = msws_uint32(ctx) through a uint32_t pointer leaves in the buffer;
\*  - the order in which the two operands of | in msws_uint64 are evaluated
\*    (unspecified in C and C++: each call site may be compiled either way).
ByteOrders == {"little", "big"}

\* msws_t ctx: ctx[1] = x (C's ctx[0]), ctx[2] = w (ctx[1]), ctx[3] = s (ctx[2])
\* msws_uint32: one raw step; returns the new context and the 32-bit result
msws_uint32(ctx) ==
    LET sq  == Mul(ctx[1], ctx[1])                  \* ctx[0] *= ctx[0]
        w   == Add(ctx[2], ctx[3])                  \* ctx[1] += ctx[2]
        sum == Add(sq, w)                           \* ctx[0] += ctx[1]
        rot == SubSeq(sum, 5, 8) \o SubSeq(sum, 1, 4)  \* (x >> 32) | (x << 32)
    IN  [ctx |-> <<rot, w, ctx[3]>>, ret |-> Trunc(rot, 4)]

\* n consecutive raw steps with their results discarded (n >= 1); the run is
\* split in halves, the first evaluated before the second is entered
RECURSIVE Discard(_, _)
Discard(ctx, n) ==
    IF n = 1 THEN msws_uint32(ctx).ctx
    ELSE CHOOSE r \in {Discard(c, n - n \div 2) :
                         c \in {Discard(ctx, n \div 2)}} : TRUE

\* the constant 0xB5AD4ECEDA1CE2A9 added to the shifted seed
K == U64(\hB5AD, \h4ECE, \hDA1C, \hE2A9)

\* msws_init with the seed added unshifted
msws_init_noshift(seed) ==
    Discard(<<Zero(8), Zero(8), Add(ZeroExt(seed, 8), K)>>, 13)

\* msws_init: ctx[2] = (((uint64_t)seed) << 1U) + K, then 13 discarded raw steps
msws_init(seed) ==
    Discard(<<Zero(8), Zero(8), Add(Shl1(ZeroExt(seed, 8), 0), K)>>, 13)


\* static const uint32_t DIV[64]; DIV[max + 1] here is C's DIV[max]
DIV ==
    <<
        U32(\hFFFF, \hFFFF), U32(\hFFFF, \hFFFF), U32(\h8000, \h0000), U32(\h5555, \h5556),
        U32(\h4000, \h0000), U32(\h3333, \h3334), U32(\h2AAA, \hAAAB), U32(\h2492, \h4925),
        U32(\h2000, \h0000), U32(\h1C71, \hC71D), U32(\h1999, \h999A), U32(\h1745, \hD175),
        U32(\h1555, \h5556), U32(\h13B1, \h3B14), U32(\h1249, \h2493), U32(\h1111, \h1112),
        U32(\h1000, \h0000), U32(\h0F0F, \h0F10), U32(\h0E38, \hE38F), U32(\h0D79, \h435F),
        U32(\h0CCC, \hCCCD), U32(\h0C30, \hC30D), U32(\h0BA2, \hE8BB), U32(\h0B21, \h642D),
        U32(\h0AAA, \hAAAB), U32(\h0A3D, \h70A4), U32(\h09D8, \h9D8A), U32(\h097B, \h425F),
        U32(\h0924, \h924A), U32(\h08D3, \hDCB1), U32(\h0888, \h8889), U32(\h0842, \h1085),
        U32(\h0800, \h0000), U32(\h07C1, \hF07D), U32(\h0787, \h8788), U32(\h0750, \h7508),
        U32(\h071C, \h71C8), U32(\h06EB, \h3E46), U32(\h06BC, \hA1B0), U32(\h0690, \h6907),
        U32(\h0666, \h6667), U32(\h063E, \h7064), U32(\h0618, \h6187), U32(\h05F4, \h17D1),
        U32(\h05D1, \h745E), U32(\h05B0, \h5B06), U32(\h0590, \hB217), U32(\h0572, \h620B),
        U32(\h0555, \h5556), U32(\h0539, \h782A), U32(\h051E, \hB852), U32(\h0505, \h0506),
        U32(\h04EC, \h4EC5), U32(\h04D4, \h873F), U32(\h04BD, \hA130), U32(\h04A7, \h904B),
        U32(\h0492, \h4925), U32(\h047D, \hC120), U32(\h0469, \hEE59), U32(\h0456, \hC798),
        U32(\h0444, \h4445), U32(\h0432, \h5C54), U32(\h0421, \h0843), U32(\h0410, \h4105)
    >>

\* Divisor without the "+ 1U" of the computed branch
Divisor_noinc(max) ==
    IF Less(max, U32(0, 64))
    THEN DIV[ToNat(max) + 1]
    ELSE Div(UINT32_MAX, max)

\* the divisor msws_uint32_max divides the raw draw by
Divisor(max) ==
    IF Less(max, U32(0, 64))
    THEN DIV[ToNat(max) + 1]
    ELSE Add(Div(UINT32_MAX, max), U32(0, 1))

\* msws_uint32_max with a guard that returns 0 for max = 0 without drawing
msws_uint32_max_guard(ctx, max) ==
    IF max = Zero(4)
    THEN [ctx |-> ctx, ret |-> Zero(4), raw |-> Zero(4), div |-> Zero(4)]
    ELSE CHOOSE res \in
            {[ctx |-> r.ctx, ret |-> Div(r.ret, Divisor(max)),
              raw |-> r.ret, div |-> Divisor(max)] : r \in {msws_uint32(ctx)}} : TRUE

\* msws_uint32_max: the new context, the result, and the raw draw and the
\* divisor it was computed from
msws_uint32_max(ctx, max) ==
    CHOOSE res \in
        {[ctx |-> r.ctx, ret |-> Div(r.ret, Divisor(max)),
          raw |-> r.ret, div |-> Divisor(max)] : r \in {msws_uint32(ctx)}} : TRUE

\* msws_uint64: (((uint64_t)msws_uint32(ctx)) << 32U) | msws_uint32(ctx).
\* d1 is the raw draw taken first, d2 the one taken second.  left_first: the
\* build evaluates the left operand of | before the right one, so the left
\* operand (the high word) gets the first draw; otherwise it gets the second.
Compose64(d1, d2, left_first) ==
    [ctx |-> d2.ctx,
     ret |-> IF left_first THEN d2.ret \o d1.ret ELSE d1.ret \o d2.ret]

msws_uint64(ctx, left_first) ==
    CHOOSE res \in
        {Compose64(d1, msws_uint32(d1.ctx), left_first) :
            d1 \in {msws_uint32(ctx)}} : TRUE

\* the bytes the store *ptr = r leaves in memory
StoreWord(r, byte_order) ==
    IF byte_order = "little" THEN r ELSE <<r[4], r[3], r[2], r[1]>>

\* one iteration of the word loop: *ptr++ = msws_uint32(ctx)
WordStep(st, byte_order) ==
    CHOOSE res \in
        {[ctx |-> r.ctx, buf |-> st.buf \o StoreWord(r.ret, byte_order)] :
            r \in {msws_uint32(st.ctx)}} : TRUE

\* for (len >>= 2U; len; --len) ...: n iterations, the run split in halves
RECURSIVE WordLoop(_, _, _)
WordLoop(st, n, byte_order) ==
    IF n = 0 THEN st
    ELSE IF n = 1 THEN WordStep(st, byte_order)
    ELSE CHOOSE res \in
            {WordLoop(m, n - n \div 2, byte_order) :
                m \in {WordLoop(st, n \div 2, byte_order)}} : TRUE

\* tmp >>= 8U
Shr8(tmp) == <<tmp[2], tmp[3], tmp[4], 0>>

\* the shift counter wrapped with & 1U
NextSft_and1(sft) == (sft + 1) % 2

\* (sft + 1U) & 3U
NextSft(sft) == (sft + 1) % 4

\* one iteration of the byte loop:
\*   *buffer++ = (uint8_t)(sft ? (tmp >>= 8U) : (tmp = msws_uint32(ctx)));
\*   sft = (sft + 1U) & 3U
ByteStep(st) ==
    IF st.sft # 0
    THEN [ctx |-> st.ctx, tmp |-> Shr8(st.tmp), sft |-> NextSft(st.sft),
          buf |-> Append(st.buf, Shr8(st.tmp)[1])]
    ELSE CHOOSE res \in
            {[ctx |-> r.ctx, tmp |-> r.ret, sft |-> NextSft(st.sft),
              buf |-> Append(st.buf, r.ret[1])] :
                r \in {msws_uint32(st.ctx)}} : TRUE

\* for (size_t sft = 0U; len; --len, ...) ...: n iterations, the run split in halves
RECURSIVE ByteLoop(_, _)
ByteLoop(st, n) ==
    IF n = 0 THEN st
    ELSE IF n = 1 THEN ByteStep(st)
    ELSE CHOOSE res \in
            {ByteLoop(m, n - n \div 2) : m \in {ByteLoop(st, n \div 2)}} : TRUE

\* msws_bytes: the new context and the len bytes written to the buffer.
\* aligned: (((uintptr_t)buffer) & 3U) == 0U.  tmp is uninitialized when the byte
\* loop is entered and is assigned (sft = 0) before it is first read, so its
\* initial value here is never seen.
msws_bytes(ctx, len, aligned, byte_order) ==
    IF len % 4 = 0 /\ aligned
    THEN WordLoop([ctx |-> ctx, buf |-> <<>>], len \div 4, byte_order)
    ELSE CHOOSE res \in
            {[ctx |-> st.ctx, buf |-> st.buf] :
                st \in {ByteLoop([ctx |-> ctx, tmp |-> Zero(4), sft |-> 0,
                                  buf |-> <<>>], len)}} : TRUE

(***************************************************************************)
(* The generator in use: class msws::rng and a caller that constructs it   *)
(* from a seed and then calls its methods.                                 *)
(***************************************************************************)

VARIABLES
    endian,     \* the byte order of the host the build runs on
    seed,       \* the seed the generator was constructed from
    m_ctx,      \* rng::m_ctx
    hist,       \* the calls made on the generator so far, oldest first
    ctxB,       \* m_ctx of a second generator constructed from the same seed
    histB,      \* the calls made on the second generator
    \* main() of src/msws.cpp, from the construction of rng on
    pc,          \* "none": main is not running; "loop": in the output loop of
                 \* the selected mode; "done": returned EXIT_SUCCESS
    rnd_mode,    \* 0: 32-bit values, 1: 64-bit values (--uint64), 2: --binary
    count_arg,   \* atoll() of the <count> argument (a 64-bit value); <<>> if absent
    cntr,        \* const uint32_t cntr
    loop_i,      \* uint32_t i of the counted loops of modes 0 and 1
    remain,      \* uint32_t remain of the counted binary loop
    buffer,      \* the bytes msws_bytes left in uint8_t buffer[BUFF_SIZE]
    buf_aligned, \* whether the address of buffer is a multiple of 4
    written,     \* values (modes 0, 1) or bytes (mode 2) written to stdout
    iters,       \* iterations made by an endless loop
    wfail        \* fwrite returned a short count

libvars  == <<hist, ctxB, histB>>
mainvars == <<pc, rnd_mode, count_arg, cntr, loop_i, remain, buffer, buf_aligned,
              written, iters, wfail>>
vars == <<endian, seed, m_ctx, libvars, mainvars>>

\* largest number of calls made on a generator
MaxCalls == 2

\* largest length passed to rng::bytes
MaxLen == 5

\* the seeds generators are constructed from; 0x82570205 is the seed whose
\* first raw draw after construction is 0xFFFFFFFF
Seeds == {U32(0, 0), U32(\hFFFF, \hFFFF), U32(\h8257, \h0205)}

\* the bounds passed to rng::uint32(max)
Maxes ==
    {U32(0, 0), U32(0, 1), U32(0, 2), U32(0, 63), U32(0, 64),
     U32(1, \h86A0), U32(\h8000, 0), U32(\hFFFF, \hFFFF)}

\* the record of one call: what was called with which arguments on which
\* context (pre), the context it left (post) and what it returned (ret; for
\* rng::bytes the buffer contents).  raw and div are the raw draw and the
\* divisor of rng::uint32(max).  err: the error the call signalled; no function
\* of msws.h has an error path, so it is "none" for every call.
CallRec(op, max, len, aligned, left_first, pre, res, raw, div) ==
    [op |-> op, max |-> max, len |-> len, aligned |-> aligned,
     left_first |-> left_first, pre |-> pre, post |-> res.ctx, ret |-> res.ret,
     raw |-> raw, div |-> div, err |-> "none"]

RecU32(ctx) ==
    CHOOSE rec \in
        {CallRec("uint32", Zero(4), 0, TRUE, TRUE, ctx, r, r.ret, Zero(4)) :
            r \in {msws_uint32(ctx)}} : TRUE

RecMax(ctx, max) ==
    CHOOSE rec \in
        {CallRec("uint32_max", max, 0, TRUE, TRUE, ctx, r, r.raw, r.div) :
            r \in {msws_uint32_max(ctx, max)}} : TRUE

RecU64(ctx, left_first) ==
    CHOOSE rec \in
        {CallRec("uint64", Zero(4), 0, TRUE, left_first, ctx, r, Zero(4), Zero(4)) :
            r \in {msws_uint64(ctx, left_first)}} : TRUE

RecBytes(ctx, len, aligned, byte_order) ==
    CHOOSE rec \in
        {CallRec("bytes", Zero(4), len, aligned, TRUE, ctx,
                 [ctx |-> r.ctx, ret |-> r.buf], Zero(4), Zero(4)) :
            r \in {msws_bytes(ctx, len, aligned, byte_order)}} : TRUE

\* main is not running: the generator is used by another caller
NoMain ==
    /\ pc = "none"
    /\ rnd_mode = 0
    /\ count_arg = <<>>
    /\ cntr = Zero(4)
    /\ loop_i = Zero(4)
    /\ remain = Zero(4)
    /\ buffer = <<>>
    /\ buf_aligned = TRUE
    /\ written = 0
    /\ iters = 0
    /\ wfail = FALSE

\* rng::rng(seed) on a host of either byte order
Init ==
    /\ endian \in ByteOrders
    /\ seed \in Seeds
    /\ m_ctx = msws_init(seed)
    /\ hist = <<>>
    /\ ctxB = <<>>
    /\ histB = <<>>
    /\ NoMain

Called(rec) ==
    /\ m_ctx' = rec.post
    /\ hist' = Append(hist, rec)
    /\ UNCHANGED <<endian, seed, ctxB, histB, mainvars>>

\* rng::uint32()
DrawU32 ==
    /\ Len(hist) < MaxCalls
    /\ Called(RecU32(m_ctx))

\* rng::uint32(max)
DrawU32Max ==
    /\ Len(hist) < MaxCalls
    /\ \E max \in Maxes : Called(RecMax(m_ctx, max))

\* rng::uint64()
DrawU64 ==
    /\ Len(hist) < MaxCalls
    /\ \E left_first \in BOOLEAN : Called(RecU64(m_ctx, left_first))

\* rng::bytes(buffer, len)
FillBytes ==
    /\ Len(hist) < MaxCalls
    /\ \E len \in 0 .. MaxLen, aligned \in BOOLEAN :
          Called(RecBytes(m_ctx, len, aligned, endian))

Next == DrawU32 \/ DrawU32Max \/ DrawU64 \/ FillBytes

Spec == Init /\ [][Next]_vars

(***************************************************************************)
(* Two generators constructed from the same seed and given the same calls  *)
(* with the same arguments.  The calls on the two generators are different *)
(* call sites: each has its own buffer and is compiled on its own.         *)
(***************************************************************************)

InitTwin ==
    /\ endian \in ByteOrders
    /\ seed \in Seeds
    /\ m_ctx = msws_init(seed)
    /\ ctxB = msws_init(seed)
    /\ hist = <<>>
    /\ histB = <<>>
    /\ NoMain

TwinCalled(recA, recB) ==
    /\ m_ctx' = recA.post
    /\ ctxB' = recB.post
    /\ hist' = Append(hist, recA)
    /\ histB' = Append(histB, recB)
    /\ UNCHANGED <<endian, seed, mainvars>>

TwinDrawU32 ==
    /\ Len(hist) < MaxCalls
    /\ TwinCalled(RecU32(m_ctx), RecU32(ctxB))

TwinDrawU32Max ==
    /\ Len(hist) < MaxCalls
    /\ \E max \in Maxes : TwinCalled(RecMax(m_ctx, max), RecMax(ctxB, max))

TwinDrawU64 ==
    /\ Len(hist) < MaxCalls
    /\ \E leftA, leftB \in BOOLEAN :
          TwinCalled(RecU64(m_ctx, leftA), RecU64(ctxB, leftB))

TwinFillBytes ==
    /\ Len(hist) < MaxCalls
    /\ \E len \in 0 .. MaxLen, alignedA, alignedB \in BOOLEAN :
          TwinCalled(RecBytes(m_ctx, len, alignedA, endian),
                     RecBytes(ctxB, len, alignedB, endian))

NextTwin == TwinDrawU32 \/ TwinDrawU32Max \/ TwinDrawU64 \/ TwinFillBytes

SpecTwin == InitTwin /\ [][NextTwin]_vars

(***************************************************************************)
(* src/msws.cpp: main, from msws::rng rng(seed) on.  The command line is   *)
(* taken as parsed: the mode, and the value atoll returned for <count>.    *)
(***************************************************************************)

INFINITE == U32(0, 0)

BUFF_SIZE == 4096

\* most iterations followed in a loop that has no end
MaxIters == 3

\* the command lines run: the mode and the <count> argument (<<>>: none given)
CmdLines ==
    {[mode |-> m, count |-> c] :
        m \in {0, 1},
        c \in {<<>>, U64(0, 0, 0, 0), U64(0, 0, 0, 1), U64(0, 0, 0, 3),
               U64(0, 1, 0, 0), U64(0, 1, 0, 2)}}
    \cup
    {[mode |-> 2, count |-> c] :
        c \in {<<>>, U64(0, 0, 0, 0), U64(0, 0, 0, 1), U64(0, 0, 0, 5),
               U64(0, 0, 0, 4096), U64(0, 0, 0, 4097), U64(0, 0, 0, 8200),
               U64(0, 1, 0, 0)}}

MainSeeds == {U32(0, 0), U32(\hFFFF, \hFFFF)}

\* (argc > arg_offset) ? (uint32_t)atoll(argv[arg_offset++]) : INFINITE
ParseCount(arg) == IF arg = <<>> THEN INFINITE ELSE Trunc(arg, 4)

\* the state when the switch on rnd_mode is entered
InitMain ==
    /\ endian \in ByteOrders
    /\ seed \in MainSeeds
    /\ m_ctx = msws_init(seed)
    /\ hist = <<>> /\ ctxB = <<>> /\ histB = <<>>
    /\ \E cmd \in CmdLines :
          /\ rnd_mode = cmd.mode
          /\ count_arg = cmd.count
          /\ cntr = ParseCount(cmd.count)
          /\ remain = ParseCount(cmd.count)
    /\ buf_aligned \in BOOLEAN
    /\ pc = "loop"
    /\ loop_i = Zero(4)
    /\ buffer = <<>>
    /\ written = 0
    /\ iters = 0
    /\ wfail = FALSE

\* the loop condition with <= for <
Continue_le(k, n) == ~Less(n, k)

\* i < cntr
Continue(k, n) == Less(k, n)

\* (remain > BUFF_SIZE) ? BUFF_SIZE : remain
ChunkSize(r) == IF Less(OfNat(BUFF_SIZE, 4), r) THEN BUFF_SIZE ELSE ToNat(r)

\* the value printed: rng.uint32() in mode 0, rng.uint64() in mode 1 (either
\* order of its two draws)
Drawn(mode) ==
    IF mode = 0 THEN {msws_uint32(m_ctx)}
    ELSE {msws_uint64(m_ctx, left_first) : left_first \in BOOLEAN}

\* for (;;) printf(..., rng.uint32());  resp. rng.uint64()
PrintForever ==
    /\ pc = "loop" /\ rnd_mode \in {0, 1} /\ cntr = INFINITE
    /\ iters < MaxIters
    /\ \E r \in Drawn(rnd_mode) : m_ctx' = r.ctx
    /\ written' = written + 1
    /\ iters' = iters + 1
    /\ UNCHANGED <<endian, seed, libvars, pc, rnd_mode, count_arg, cntr, loop_i,
                   remain, buffer, buf_aligned, wfail>>

\* for (uint32_t i = 0U; i < cntr; ++i) printf(..., rng.uint32());  resp. uint64
PrintCounted ==
    /\ pc = "loop" /\ rnd_mode \in {0, 1} /\ cntr # INFINITE
    /\ IF Continue(loop_i, cntr)
       THEN /\ \E r \in Drawn(rnd_mode) : m_ctx' = r.ctx
            /\ written' = written + 1
            /\ loop_i' = Add(loop_i, U32(0, 1))
            /\ pc' = pc
       ELSE /\ pc' = "done"
            /\ UNCHANGED <<m_ctx, written, loop_i>>
    /\ UNCHANGED <<endian, seed, libvars, rnd_mode, count_arg, cntr, remain,
                   buffer, buf_aligned, iters, wfail>>

\* for (;;) { rng.bytes(buffer, BUFF_SIZE); if (fwrite(...) != BUFF_SIZE) break; }
WriteForever ==
    /\ pc = "loop" /\ rnd_mode = 2 /\ cntr = INFINITE
    /\ iters < MaxIters
    /\ \E r \in {msws_bytes(m_ctx, BUFF_SIZE, buf_aligned, endian)} :
          /\ m_ctx' = r.ctx
          /\ buffer' = r.buf
    /\ iters' = iters + 1
    /\ \/ /\ written' = written + BUFF_SIZE       \* fwrite wrote the chunk
          /\ UNCHANGED <<pc, wfail>>
       \/ /\ wfail' = TRUE                         \* short count: break
          /\ pc' = "done"
          /\ UNCHANGED written
    /\ UNCHANGED <<endian, seed, libvars, rnd_mode, count_arg, cntr, loop_i, remain,
                   buf_aligned>>

\* do { rng.bytes(buffer, bytes = ...); if (fwrite(...) != bytes) break; }
\* while ((remain -= bytes) > 0U);
WriteCounted ==
    /\ pc = "loop" /\ rnd_mode = 2 /\ cntr # INFINITE
    /\ \E r \in {msws_bytes(m_ctx, ChunkSize(remain), buf_aligned, endian)} :
          /\ m_ctx' = r.ctx
          /\ buffer' = r.buf
    /\ \/ /\ written' = written + ChunkSize(remain)
          /\ remain' = Sub(remain, OfNat(ChunkSize(remain), 4))
          /\ pc' = IF Less(Zero(4), remain') THEN "loop" ELSE "done"
          /\ UNCHANGED wfail
       \/ /\ wfail' = TRUE
          /\ pc' = "done"
          /\ UNCHANGED <<written, remain>>
    /\ UNCHANGED <<endian, seed, libvars, rnd_mode, count_arg, cntr, loop_i,
                   buf_aligned, iters>>

NextMain == PrintForever \/ PrintCounted \/ WriteForever \/ WriteCounted

\* main is inside a loop and its next step is possible: ENABLED <<NextMain>>_vars
\* written out (every step of NextMain changes written, loop_i, iters or pc)
Running == pc = "loop" /\ (cntr # INFINITE \/ iters < MaxIters)

\* main is one sequential thread: while a step is possible, one is taken.
\* This is WF_vars(NextMain) with Running for ENABLED <<NextMain>>_vars.
MainFair == []<>(~Running) \/ []<><<NextMain>>_vars

SpecMain == InitMain /\ [][NextMain]_vars /\ MainFair

(***************************************************************************)
(* Properties of the generator                                            *)
(***************************************************************************)

Calls == 1 .. Len(hist)

\* the first n raw draws from ctx, in order
RECURSIVE RawDraws(_, _)
RawDraws(ctx, n) ==
    IF n = 0 THEN <<>>
    ELSE CHOOSE ds \in
            {<<r.ret>> \o RawDraws(r.ctx, n - 1) : r \in {msws_uint32(ctx)}} : TRUE

\* the context n raw steps after ctx
RawSteps(ctx, n) == IF n = 0 THEN ctx ELSE Discard(ctx, n)

\* the number of raw steps a call is said to consume: 1 per draw_u32 and
\* draw_u32_bounded, 2 per draw_u64, ceil(len / 4) per fill_bytes(len)
StepsOf(c) ==
    CASE c.op = "uint32"     -> 1
      [] c.op = "uint32_max" -> 1
      [] c.op = "uint64"     -> 2
      [] OTHER               -> (c.len + 3) \div 4

RECURSIVE TotalSteps(_)
TotalSteps(h) == IF h = <<>> THEN 0 ELSE StepsOf(Head(h)) + TotalSteps(Tail(h))

\* a <= b, unsigned
Leq(a, b) == ~Less(b, a)

\* 2^32 at a width of n >= 5 bytes
Pow32(n) == Zero(4) \o <<1>> \o Zero(n - 5)

\* C1: for every bound max with 1 <= max <= 100000 and every raw draw,
\* draw_u32_bounded(max) returns a value r with r < max.
C1_BoundedRange ==
    \A i \in Calls :
        (/\ hist[i].op = "uint32_max"
         /\ Leq(U32(0, 1), hist[i].max)
         /\ Leq(hist[i].max, U32(1, \h86A0)))
        => Less(hist[i].ret, hist[i].max)

\* C2: draw_u64 returns (a << 32) | b, a the first raw draw on the state and b
\* the second, and leaves the state advanced by exactly two raw steps.
C2_HighWordFirst ==
    \A i \in Calls :
        hist[i].op = "uint64" =>
            LET ds == RawDraws(hist[i].pre, 2)
            IN  /\ hist[i].ret = Add(Mul(ZeroExt(ds[1], 8), Pow32(8)),
                                     ZeroExt(ds[2], 8))
                /\ hist[i].post = RawSteps(hist[i].pre, 2)

\* byte i (0-based) of the canonical stream: (d_k >> 8 * (i mod 4)) & 0xFF with
\* k = floor(i / 4) and d_k the k-th raw draw
CanonByte(ds, i) == ds[(i \div 4) + 1][(i % 4) + 1]

\* C3: the word-path and the byte-path of fill_bytes write the same bytes: for
\* every state, length and buffer alignment, output byte i is byte (i mod 4),
\* least significant first, of the floor(i/4)-th raw draw.
C3_PathsAgree ==
    \A i \in Calls :
        hist[i].op = "bytes" =>
            LET ds == RawDraws(hist[i].pre, (hist[i].len + 3) \div 4)
            IN  /\ Len(hist[i].ret) = hist[i].len
                /\ \A j \in 0 .. hist[i].len - 1 :
                       hist[i].ret[j + 1] = CanonByte(ds, j)

\* C4: the constant s = (seed << 1) + 0xB5AD4ECEDA1CE2A9 mod 2^64 is odd, has
\* nonzero upper 32 bits, and keeps that value in every state reached by any
\* sequence of calls.
C4_SConstant ==
    /\ m_ctx[3] = Add(Add(ZeroExt(seed, 8), ZeroExt(seed, 8)), K)
    /\ m_ctx[3][1] % 2 = 1
    /\ SubSeq(m_ctx[3], 5, 8) # Zero(4)
    /\ \A i \in Calls : hist[i].post[3] = hist[i].pre[3]

C4_Witness ==
    /\ seed = U32(\hFFFF, \hFFFF)
    /\ Len(hist) = 2
    /\ hist[1].op = "bytes" /\ hist[1].len = 5
    /\ hist[2].op = "uint64"

\* C5: two generators constructed from the same seed and given the same
\* sequence of calls return identical outputs at every call and are in
\* identical states after every call.
C5_Deterministic ==
    /\ Len(histB) = Len(hist)
    /\ ctxB = m_ctx
    /\ \A k \in Calls :
          /\ histB[k].ret = hist[k].ret
          /\ histB[k].post = hist[k].post

C8_DivisorFloor ==
    \A i \in Calls :
        (hist[i].op = "uint32_max" /\ Leq(U32(0, 64), hist[i].max))
        => ZeroExt(hist[i].div, 5)
             = Add(Div(Pow32(5), ZeroExt(hist[i].max, 5)), <<1, 0, 0, 0, 0>>)

\* C8, amended: for every max >= 64 the divisor is ceil(2^32 / max): it is
\* floor(2^32 / max) + 1 when max does not divide 2^32, and exactly 2^32 / max
\* when it does (max a power of two).
C8_DivisorCeil ==
    \A i \in Calls :
        (hist[i].op = "uint32_max" /\ Leq(U32(0, 64), hist[i].max))
        => LET q == Div(Pow32(5), ZeroExt(hist[i].max, 5))
               exact == Mul(ZeroExt(q, 8), ZeroExt(hist[i].max, 8)) = Pow32(8)
           IN  ZeroExt(hist[i].div, 5)
                 = IF exact THEN q ELSE Add(q, <<1, 0, 0, 0, 0>>)

C8_Witness ==
    \E i, j \in Calls :
        /\ hist[i].op = "uint32_max" /\ hist[i].max = U32(0, 64)
        /\ hist[i].div = U32(\h0400, 0)
        /\ hist[j].op = "uint32_max" /\ hist[j].max = U32(1, \h86A0)

\* C9: w = ((13 + n) * s) mod 2^64 with n the raw steps consumed since
\* construction (1 per draw_u32 and draw_u32_bounded, 2 per draw_u64,
\* ceil(len/4) per fill_bytes(len)); every call changes the state by exactly
\* that many raw steps, so fill_bytes(0) leaves (x, w, s) unchanged.
C9_WeylCounts ==
    /\ m_ctx[2] = Mul(OfNat(13 + TotalSteps(hist), 8), m_ctx[3])
    /\ \A i \in Calls :
          /\ hist[i].post = RawSteps(hist[i].pre, StepsOf(hist[i]))
          /\ (hist[i].op = "bytes" /\ hist[i].len = 0) => hist[i].post = hist[i].pre

C9_Witness ==
    /\ Len(hist) = 2
    /\ hist[1].op = "bytes" /\ hist[1].len = 0
    /\ hist[2].op = "bytes" /\ hist[2].len = 5 /\ ~hist[2].aligned

\* C10: for a a multiple of 4, fill_bytes(a) followed by fill_bytes(b) writes
\* the same a + b bytes and leaves the same state as one fill_bytes(a + b),
\* whatever the alignment of the buffers.
C10_ChunksConcatenate ==
    \A i \in Calls :
        (/\ i + 1 \in Calls
         /\ hist[i].op = "bytes" /\ hist[i + 1].op = "bytes"
         /\ hist[i].len % 4 = 0)
        => \A aligned \in BOOLEAN :
              LET one == msws_bytes(hist[i].pre, hist[i].len + hist[i + 1].len,
                                    aligned, endian)
              IN  /\ hist[i].ret \o hist[i + 1].ret = one.buf
                  /\ hist[i + 1].post = one.ctx

====
